---- MODULE Spec2Model ----
(***************************************************************************)
(* A model of eywa-axum: the EywaApp builder (src/src/app.rs) and the      *)
(* request-context middleware (src/src/middleware.rs).                     *)
(*                                                                         *)
(* The builder accumulates routes, middleware layers, tags and deferred    *)
(* documentation callbacks; serve() builds the OpenAPI document and binds. *)
(* A served request descends the layers wrapped around the route it        *)
(* matches (outermost first), reaches the handler, and its response        *)
(* ascends the same layers in the opposite order.                          *)
(***************************************************************************)
EXTENDS Integers, Sequences, FiniteSets, TLC

\* ------------------------------------------------------------------ bounds

\* Builder calls made before serve().
MaxCalls == 3

\* Requests the served application receives.
MaxReq == 2

\* Words in the message of a DatabaseStatus::Error.
MaxWords == 3

\* ------------------------------------------------------------------ options

\* Option<T>: None is the empty sequence, Some(x) the one-element sequence.
None == <<>>

Some(x) == <<x>>

IsSome(o) == Len(o) = 1

Unwrap(o) == o[1]

\* ------------------------------------------------------------------ uuid

\* A Uuid is its 32 hexadecimal digits (16 bytes), most significant first.

HexLower == <<"0","1","2","3","4","5","6","7","8","9","a","b","c","d","e","f">>

HexUpper == <<"0","1","2","3","4","5","6","7","8","9","A","B","C","D","E","F">>

\* The value of every hexadecimal digit, of either case.
HexDigits ==
    [c \in {HexLower[i] : i \in 1..16} \cup {HexUpper[i] : i \in 1..16} |->
        IF \E i \in 1..16 : HexLower[i] = c
        THEN (CHOOSE i \in 1..16 : HexLower[i] = c) - 1
        ELSE (CHOOSE i \in 1..16 : HexUpper[i] = c) - 1]

\* The value of a hexadecimal digit, -1 for any other byte.
HexVal(c) == IF c \in DOMAIN HexDigits THEN HexDigits[c] ELSE -1

\* Positions of the four hyphens of the 8-4-4-4-12 text.
HyphenAt == {9, 14, 19, 24}

\* The text position of digit i of the hyphenated form.
DigitAt(i) ==
    IF i > 20 THEN i + 4
    ELSE IF i > 16 THEN i + 3
    ELSE IF i > 12 THEN i + 2
    ELSE IF i > 8 THEN i + 1
    ELSE i

\* Uuid's Display: the lower-case hyphenated text, 36 bytes.
to_string(u) ==
    [p \in 1..36 |->
        IF p \in HyphenAt THEN "-"
        ELSE HexLower[u[p - Cardinality({h \in HyphenAt : h < p})] + 1]]

\* 32 hexadecimal digits of either case, no hyphens.
parse_simple(s) ==
    IF Len(s) = 32 /\ \A i \in 1..32 : HexVal(s[i]) >= 0
    THEN Some([i \in 1..32 |-> HexVal(s[i])])
    ELSE None

\* 8-4-4-4-12 hexadecimal digits of either case.
parse_hyphenated(s) ==
    IF /\ Len(s) = 36
       /\ \A p \in 1..36 : IF p \in HyphenAt THEN s[p] = "-" ELSE HexVal(s[p]) >= 0
    THEN Some([i \in 1..32 |-> HexVal(s[DigitAt(i)])])
    ELSE None

UrnPrefix == <<"u","r","n",":","u","u","i","d",":">>

\* Uuid::parse_str: the simple form, the hyphenated form, the hyphenated form
\* in braces, and the hyphenated form after "urn:uuid:".
parse_str(s) ==
    IF Len(s) = 32 THEN parse_simple(s)
    ELSE IF Len(s) = 36 THEN parse_hyphenated(s)
    ELSE IF Len(s) = 38 /\ s[1] = "{" /\ s[38] = "}"
         THEN parse_hyphenated(SubSeq(s, 2, 37))
    ELSE IF Len(s) = 45 /\ SubSeq(s, 1, 9) = UrnPrefix
         THEN parse_hyphenated(SubSeq(s, 10, 45))
    ELSE None

\* The version nibble (digit 13); 4 is Version::Random.
get_version(u) == u[13]

VersionRandom == 4

\* Uuid::default(), the nil identifier.
NilUuid == [i \in 1..32 |-> 0]

\* The n-th identifier Uuid::new_v4 hands out: version 4, variant 10xx, and the
\* random bits taken from the generator's position, so no two draws agree.
GenUuid(n) ==
    [i \in 1..32 |->
        IF i = 13 THEN 4
        ELSE IF i = 17 THEN 8
        ELSE IF i = 32 THEN n % 16
        ELSE IF i = 31 THEN (n \div 16) % 16
        ELSE 15]

\* ------------------------------------------------------------------ headers

\* A header value is a sequence of bytes; a byte is written as a one-character
\* string when it is visible ASCII and as one of OpaqueBytes otherwise.
OpaqueBytes == {"0xE9", "0xFF"}

\* HeaderValue::to_str: the text of a value whose bytes are all visible ASCII.
to_str(v) == IF \A i \in 1..Len(v) : v[i] \notin OpaqueBytes THEN Some(v) ELSE None

HeaderNames == {"x-correlation-id", "accept-language", "content-type"}

\* A HeaderMap holds, for each name, the values received for it, in order.
EmptyHeaders == [n \in HeaderNames |-> <<>>]

\* HeaderMap::get: the first value of the name.
Get(h, n) == IF h[n] = <<>> THEN None ELSE Some(h[n][1])

\* HeaderMap::insert: the value replaces every value of the name.
Insert(h, n, v) == [h EXCEPT ![n] = <<v>>]

\* ------------------------------------------------------------------ sample inputs

\* a1b2c3d4-e5f6-4789-ab01-23456789cdef, an identifier a client sends.
TextA ==
    << "a","1","b","2","c","3","d","4","-","e","5","f","6","-","4","7","8","9","-",
       "a","b","0","1","-","2","3","4","5","6","7","8","9","c","d","e","f" >>

\* The same text with its letters in upper case.
UpperOf(s) ==
    [i \in 1..Len(s) |-> IF HexVal(s[i]) >= 10 THEN HexUpper[HexVal(s[i]) + 1] ELSE s[i]]

\* The same text without its hyphens.
SimpleOf(s) == SelectSeq(s, LAMBDA c : c # "-")

BracedOf(s) == <<"{">> \o s \o <<"}">>

UrnOf(s) == UrnPrefix \o s

\* 36 bytes laid out as an identifier, with a byte that is no hexadecimal digit.
BadDigit == [TextA EXCEPT ![1] = "g"]

NotAUuid == <<"n","o","t","-","a","-","u","u","i","d">>

OpaqueValue == <<"0xE9", "0xFF">>

ItIT == <<"i","t","-","I","T">>

EnUS == <<"e","n","-","U","S">>

OpaqueLang == <<"f","r","0xE9">>

Hdr(cid, lang) ==
    [EmptyHeaders EXCEPT !["x-correlation-id"] = cid, !["accept-language"] = lang]

\* The header maps a request may carry.
RequestSamples ==
    { Hdr(<<>>, <<>>),
      Hdr(<<TextA>>, <<ItIT>>),
      Hdr(<<UpperOf(TextA)>>, <<>>),
      Hdr(<<SimpleOf(TextA)>>, <<OpaqueLang>>),
      Hdr(<<BracedOf(TextA)>>, <<>>),
      Hdr(<<UrnOf(TextA)>>, <<ItIT, EnUS>>),
      Hdr(<<BadDigit>>, <<EnUS>>),
      Hdr(<<OpaqueValue>>, <<>>),
      Hdr(<<NotAUuid, TextA>>, <<>>) }

\* The header maps of the requests sent to an application with health checks.
HealthRequestSamples == {Hdr(<<>>, <<>>), Hdr(<<TextA>>, <<ItIT>>)}

\* The header maps of the requests served two at a time.
ConcurrentRequestSamples ==
    {Hdr(<<>>, <<>>), Hdr(<<TextA>>, <<ItIT>>), Hdr(<<BadDigit>>, <<EnUS>>)}

OwnCid == <<"h","-","1">>

Json == <<"j","s","o","n">>

\* The responses a controller's handler may produce.
HandlerResponses ==
    { [status |-> 200, body |-> "ok",
       headers |-> [EmptyHeaders EXCEPT !["content-type"] = <<Json>>]],
      [status |-> 500, body |-> "boom",
       headers |-> [EmptyHeaders EXCEPT !["x-correlation-id"] = <<OwnCid>>]] }

\* ------------------------------------------------------------------ route groups

\* A path is its sequence of segments: "/a" is <<"a">>, "/health/ready" is
\* <<"health", "ready">>; a trailing slash is a last empty segment.

\* A path item of the document is a map from the HTTP method to the
\* operation, here the name of who described it.

\* The controllers an application mounts (implementations of IntoRouter):
\* prefix(), tag(), the paths into_router() answers GET on, and what
\* register_schemas and register_paths insert. CtlC keeps every default of the
\* trait; CtlD answers POST only, on paths other contributors answer GET on.
Controllers == {"CtlA", "CtlB", "CtlC", "CtlD"}

Controller(c) ==
    IF c = "CtlA"
    THEN [prefix |-> <<>>, tag |-> "A", routes |-> {<<"a">>},
          schemas |-> {<<"Item", "Item@CtlA">>},
          paths |-> {<< <<"a">>, {<<"get", "CtlA">>} >>}]
    ELSE IF c = "CtlB"
    THEN [prefix |-> <<"b">>, tag |-> "A", routes |-> {<<"list">>},
          schemas |-> {<<"Item", "Item@CtlB">>, <<"Order", "Order@CtlB">>},
          paths |-> {<< <<"b", "list">>, {<<"get", "CtlB">>} >>}]
    ELSE IF c = "CtlD"
    THEN [prefix |-> <<>>, tag |-> "API", routes |-> {},
          schemas |-> {<<"HealthStatus", "HealthStatus@CtlD">>},
          paths |-> {<< <<"a">>, {<<"post", "CtlD">>} >>,
                     << <<"health">>, {<<"post", "CtlD">>} >>}]
    ELSE [prefix |-> <<>>, tag |-> "API", routes |-> {<<"c">>},
          schemas |-> {}, paths |-> {}]

\* The types schema::<T>() is called with: T::name() and T::schema().
SchemaTypes == {"T1", "T2"}

SchemaType(t) ==
    IF t = "T1" THEN [name |-> "Item", schema |-> "Item@T1"]
    ELSE [name |-> "Note", schema |-> "Note@T2"]

TagNames == {"A", "API"}

\* The titles info() is called with.
Titles == {"Shop", "Shop v2"}

HealthRoutes == {<<"health">>, <<"health", "ready">>, <<"health", "live">>}

\* The handler of each health route.
HealthHandler(path) ==
    IF path = <<"health">> THEN "health"
    ELSE IF path = <<"health", "ready">> THEN "ready"
    ELSE "live"

ScalarPath == <<"scalar">>

\* What routes() is called with (the routes! macro's schemas, paths and method
\* router): the paths it answers GET on, the schemas and the path items.
UtoipaMethodRouters == {"R1"}

UtoipaMethodRouter(r) ==
    [routes |-> {<<"r">>},
     schemas |-> {<<"Item", "Item@R1">>, <<"Page", "Page@R1">>},
     paths |-> {<< <<"r">>, {<<"get", "R1">>} >>}]

ApiKeyScheme == [type |-> "apiKey", scheme |-> "", bearer_format |-> "",
                 description |-> None]

\* The routers merge() is called with: the paths each answers GET on and the
\* document it carries. O1 was made from a hand-written document that has a
\* scheme named "bearer" of its own and describes paths it does not route.
OpenApiRouters == {"O1"}

OpenApiRouterOf(o) ==
    [routes |-> {<<"m">>},
     openapi |->
        [components |-> Some([security_schemes |-> {<<"bearer", ApiKeyScheme>>},
                              schemas |-> {<<"Order", "Order@O1">>,
                                           <<"Page", "Page@O1">>}]),
         paths |-> {<< <<"m">>, {<<"get", "O1">>} >>,
                    << <<"r">>, {<<"get", "O1">>, <<"put", "O1">>} >>,
                    << <<"a">>, {<<"get", "O1">>, <<"put", "O1">>} >>,
                    << <<"health", "live">>, {<<"get", "O1">>, <<"head", "O1">>} >>}]]

\* ------------------------------------------------------------------ state

VARIABLES
    phase,              \* "building", "built", "serving", "failed", "panicked";
                        \* of a LegacyEywaApp "legacy_building", "legacy_bound";
                        \* "no_app" where a value is serialized on its own
    history,            \* the builder calls made so far, in order
    routes,             \* router: path -> [handler, layers]
    router_openapi,     \* router: the document the OpenApiRouter collects
    fallback,           \* router: the layers around the fallback (404) service
    info,               \* EywaApp.info
    tags,               \* EywaApp.tags
    schema_fns,         \* EywaApp.schema_fns
    path_fns,           \* EywaApp.path_fns
    has_health_checks,  \* EywaApp.has_health_checks
    openapi,            \* the document serve builds (None before)
    ran,                \* the deferred callbacks serve has run, in order
    listener,           \* the TcpListener, once bound
    result,             \* what serve returned (None while it has not)
    reqs,               \* the requests being served: headers, extensions, response
    closed,             \* what is remembered of the requests served
    rng,                \* how many identifiers Uuid::new_v4 has handed out
    serde               \* a call of serde_json::to_string: its value and result

vars ==
    << phase, history, routes, router_openapi, fallback, info, tags, schema_fns,
       path_fns, has_health_checks, openapi, ran, listener, result, reqs, closed,
       rng, serde >>

appVars ==
    << routes, router_openapi, fallback, info, tags, schema_fns, path_fns,
       has_health_checks >>

\* A map as a set of <<key, value>> pairs with one pair per key.
Keys(m) == {kv[1] : kv \in m}

Lookup(m, k) == (CHOOSE kv \in m : kv[1] = k)[2]

\* insert: the value replaces the one the key had.
Put(m, k, v) == {kv \in m : kv[1] # k} \cup {<<k, v>>}

\* Every pair of `more` is inserted into m.
PutAll(m, more) == {kv \in m : kv[1] \notin Keys(more)} \cup more

\* Components::new
NewComponents == [security_schemes |-> {}, schemas |-> {}]

\* EywaApp::new
Init ==
    /\ phase = "building"
    /\ history = <<>>
    /\ routes = {}
    /\ router_openapi = [components |-> None, paths |-> {}]
    /\ fallback = <<>>
    /\ info = None
    /\ tags = <<>>
    /\ schema_fns = <<>>
    /\ path_fns = <<>>
    /\ has_health_checks = FALSE
    /\ openapi = None
    /\ ran = <<>>
    /\ listener = None
    /\ result = None
    /\ reqs = <<>>
    /\ closed = <<>>
    /\ rng = 0
    /\ serde = None

\* ------------------------------------------------------------------ builder

CanCall == phase = "building" /\ Len(history) < MaxCalls

Called(op, arg) == history' = Append(history, [op |-> op, arg |-> arg])

\* Router::layer wraps every route the router holds at the call, and the
\* fallback; the last layer of a sequence is the outermost.
Layered(ls) ==
    /\ routes' = {<<kv[1], [kv[2] EXCEPT !.layers = @ \o ls]>> : kv \in routes}
    /\ fallback' = fallback \o ls

\* Router::merge, Router::nest and Router::route panic on a path the router
\* already routes.
Overlaps(ps) == ps \cap Keys(routes) # {}

Panic ==
    /\ phase' = "panicked"
    /\ UNCHANGED << appVars, openapi, ran, listener, result, reqs, closed, rng, serde >>

\* info keeping the first information given.
Info_first_call_wins(title) ==
    /\ CanCall
    /\ Called("info", title)
    /\ info' = IF IsSome(info) THEN info
               ELSE Some([title |-> title, version |-> "1.0.0",
                          description |-> Some("d")])
    /\ UNCHANGED << phase, routes, fallback, tags, schema_fns, path_fns,
                    has_health_checks, router_openapi, openapi, ran, listener, result,
                    reqs, closed, rng, serde >>

\* EywaApp::info
Info(title) ==
    /\ CanCall
    /\ Called("info", title)
    /\ info' = Some([title |-> title, version |-> "1.0.0", description |-> Some("d")])
    /\ UNCHANGED << phase, routes, fallback, tags, schema_fns, path_fns,
                    has_health_checks, router_openapi, openapi, ran, listener, result, reqs, closed, rng,
                    serde >>

\* EywaApp::tag
tag(name, description) ==
    /\ CanCall
    /\ Called("tag", name)
    /\ tags' = Append(tags, [name |-> name, description |-> Some(description),
                             by |-> Len(history) + 1])
    /\ UNCHANGED << phase, routes, fallback, info, schema_fns, path_fns,
                    has_health_checks, router_openapi, openapi, ran, listener, result, reqs, closed, rng,
                    serde >>

\* EywaApp::schema::<T>
schema(t) ==
    /\ CanCall
    /\ Called("schema", t)
    /\ schema_fns' = Append(schema_fns, [kind |-> "schema", of |-> t])
    /\ UNCHANGED << phase, routes, fallback, info, tags, path_fns,
                    has_health_checks, router_openapi, openapi, ran, listener, result, reqs, closed, rng,
                    serde >>

\* PathItem::merge_operations: the operations of `that` fill the methods
\* `this` has none for.
merge_operations(this, that) ==
    this \cup {mo \in that : mo[1] \notin Keys(this)}

\* Paths::merge: an item of a new path is inserted, one of a path already
\* there has its operations merged in.
MergePaths(paths, more) ==
    {kv \in paths : kv[1] \notin Keys(more)}
        \cup {kv \in more : kv[1] \notin Keys(paths)}
        \cup {<<k, merge_operations(Lookup(paths, k), Lookup(more, k))>> :
                 k \in Keys(paths) \cap Keys(more)}

\* The components, made if there are none.
GetOrInsert(components) ==
    IF IsSome(components) THEN Unwrap(components) ELSE NewComponents

\* OpenApi::merge: paths are merged; of the other document's schemas and
\* security schemes those are taken whose name is not there yet.
MergeOpenApi(doc, other) ==
    [components |->
        IF IsSome(other.components)
        THEN LET mine == GetOrInsert(doc.components)
                 theirs == Unwrap(other.components)
             IN  Some([security_schemes |->
                          mine.security_schemes \cup
                              {kv \in theirs.security_schemes :
                                  kv[1] \notin Keys(mine.security_schemes)},
                       schemas |->
                          mine.schemas \cup
                              {kv \in theirs.schemas : kv[1] \notin Keys(mine.schemas)}])
        ELSE doc.components,
     paths |-> MergePaths(doc.paths, other.paths)]

\* EywaApp::routes, OpenApiRouter::routes: the route is added, the path items
\* are merged into the router's document and the schemas put into its components.
Routes(r) ==
    LET R == UtoipaMethodRouter(r)
    IN  /\ CanCall
        /\ Called("routes", r)
        /\ IF Overlaps(R.routes)
           THEN Panic
           ELSE /\ routes' = routes \cup
                       {<<p, [handler |-> r, layers |-> <<>>]>> : p \in R.routes}
                /\ router_openapi' =
                       [components |->
                           Some([GetOrInsert(router_openapi.components) EXCEPT
                                    !.schemas = PutAll(@, R.schemas)]),
                        paths |-> MergePaths(router_openapi.paths, R.paths)]
                /\ UNCHANGED << phase, fallback, info, tags, schema_fns, path_fns,
                                has_health_checks, openapi, ran, listener, result, reqs, closed, rng,
                                serde >>

\* EywaApp::merge, OpenApiRouter::merge
merge(o) ==
    LET O == OpenApiRouterOf(o)
    IN  /\ CanCall
        /\ Called("merge", o)
        /\ IF Overlaps(O.routes)
           THEN Panic
           ELSE /\ routes' = routes \cup
                       {<<p, [handler |-> o, layers |-> <<>>]>> : p \in O.routes}
                /\ router_openapi' = MergeOpenApi(router_openapi, O.openapi)
                /\ UNCHANGED << phase, fallback, info, tags, schema_fns, path_fns,
                                has_health_checks, openapi, ran, listener, result, reqs, closed, rng,
                                serde >>

\* mount pushing the controller's tag without looking at the list.
MountTags_unconditional(c) ==
    Append(tags, [name |-> Controller(c).tag, description |-> None,
                  by |-> Len(history) + 1])

\* mount comparing the controller's tag with the last entry of the list only.
MountTags_last_entry(c) ==
    IF tags # <<>> /\ tags[Len(tags)].name = Controller(c).tag
    THEN tags
    ELSE Append(tags, [name |-> Controller(c).tag, description |-> None,
                       by |-> Len(history) + 1])

\* The controller's tag is pushed unless a tag of that name is in the list.
MountTags(c) ==
    IF \E i \in 1..Len(tags) : tags[i].name = Controller(c).tag
    THEN tags
    ELSE Append(tags, [name |-> Controller(c).tag, description |-> None,
                       by |-> Len(history) + 1])

\* EywaApp::mount::<C>
mount(c) ==
    LET C == Controller(c)
        mounted == {C.prefix \o p : p \in C.routes}
    IN  /\ CanCall
        /\ Called("mount", c)
        /\ IF Overlaps(mounted)
           THEN Panic
           ELSE /\ routes' = routes \cup
                       {<<p, [handler |-> c, layers |-> <<>>]>> : p \in mounted}
                /\ tags' = MountTags(c)
                /\ schema_fns' = Append(schema_fns, [kind |-> "mount", of |-> c])
                /\ path_fns' = Append(path_fns, [kind |-> "mount", of |-> c])
                /\ UNCHANGED << phase, fallback, info, has_health_checks,
                                router_openapi, openapi, ran, listener, result, reqs, closed, rng,
                                serde >>

\* EywaApp::health_checks
health_checks ==
    /\ CanCall
    /\ Called("health_checks", "")
    /\ IF Overlaps(HealthRoutes)
       THEN Panic
       ELSE /\ routes' = routes \cup
                   {<<p, [handler |-> HealthHandler(p), layers |-> <<>>]>> :
                       p \in HealthRoutes}
            /\ path_fns' = Append(path_fns, [kind |-> "health", of |-> ""])
            /\ schema_fns' = Append(schema_fns, [kind |-> "health", of |-> ""])
            /\ has_health_checks' = TRUE
            /\ UNCHANGED << phase, fallback, info, tags, router_openapi, openapi,
                            ran, listener, result, reqs, closed, rng, serde >>

\* EywaApp::request_logging
request_logging ==
    /\ CanCall
    /\ Called("request_logging", "")
    /\ Layered(<<"trace">>)
    /\ UNCHANGED << phase, info, tags, schema_fns, path_fns, has_health_checks,
                    router_openapi, openapi, ran, listener, result, reqs, closed, rng,
                    serde >>

\* EywaApp::request_context: a ServiceBuilder's first layer is its outermost.
RequestContextLayers == <<"request_context", "normalize_path">>

request_context ==
    /\ CanCall
    /\ Called("request_context", "")
    /\ Layered(RequestContextLayers)
    /\ UNCHANGED << phase, info, tags, schema_fns, path_fns, has_health_checks,
                    router_openapi, openapi, ran, listener, result, reqs, closed, rng,
                    serde >>

\* ------------------------------------------------------------------ serve

\* The Info of the specification an OpenApiRouter starts with.
DefaultInfo == [title |-> "", version |-> "", description |-> None]

BearerScheme ==
    [type |-> "http", scheme |-> "bearer", bearer_format |-> "JWT",
     description |-> Some("JWT Bearer token")]

\* HealthController::register_schemas
HealthSchemas ==
    { <<"HealthResponse", "HealthResponse@health">>,
      <<"DetailedHealthResponse", "DetailedHealthResponse@health">>,
      <<"HealthStatus", "HealthStatus@health">>,
      <<"Checks", "Checks@health">>,
      <<"DatabaseStatus", "DatabaseStatus@health">> }

\* HealthController::register_paths
HealthPaths == {<<p, {<<"get", "Health">>}>> : p \in HealthRoutes}

\* A schema callback that leaves alone the names the components already have.
RunSchemaFn_keeping_entries(f, components) ==
    LET more == IF f.kind = "schema"
                THEN {<<SchemaType(f.of).name, SchemaType(f.of).schema>>}
                ELSE IF f.kind = "mount" THEN Controller(f.of).schemas
                ELSE HealthSchemas
    IN  [components EXCEPT
            !.schemas = @ \cup {kv \in more : kv[1] \notin Keys(@)}]

\* One deferred schema callback, run on the components.
RunSchemaFn(f, components) ==
    IF f.kind = "schema"
    THEN [components EXCEPT
            !.schemas = Put(@, SchemaType(f.of).name, SchemaType(f.of).schema)]
    ELSE IF f.kind = "mount"
    THEN [components EXCEPT !.schemas = PutAll(@, Controller(f.of).schemas)]
    ELSE [components EXCEPT !.schemas = PutAll(@, HealthSchemas)]

\* A path callback that merges its operations into the item a path has.
RunPathFn_merging_operations(f, doc) ==
    IF f.kind = "mount"
    THEN [doc EXCEPT !.paths = MergePaths(@, Controller(f.of).paths)]
    ELSE [doc EXCEPT !.paths = MergePaths(@, HealthPaths)]

\* One deferred path callback, run on the document.
RunPathFn(f, doc) ==
    IF f.kind = "mount"
    THEN [doc EXCEPT !.paths = PutAll(@, Controller(f.of).paths)]
    ELSE [doc EXCEPT !.paths = PutAll(@, HealthPaths)]

\* The schema callbacks run from the last registered to the first.
RECURSIVE RunSchemaFns_backwards(_, _, _)
RunSchemaFns_backwards(fns, i, acc) ==
    IF i > Len(fns) THEN acc
    ELSE LET at == Len(fns) + 1 - i
         IN  RunSchemaFns_backwards(fns, i + 1,
                 [on |-> RunSchemaFn(fns[at], acc.on),
                  ran |-> Append(acc.ran, [list |-> "schema_fns", at |-> at])])

\* The loops of serve over the callbacks, from the i-th on; `on` is what the
\* callbacks work on and `ran` lists the callbacks run.
RECURSIVE RunSchemaFns(_, _, _)
RunSchemaFns(fns, i, acc) ==
    IF i > Len(fns) THEN acc
    ELSE RunSchemaFns(fns, i + 1,
                      [on |-> RunSchemaFn(fns[i], acc.on),
                       ran |-> Append(acc.ran, [list |-> "schema_fns", at |-> i])])

RECURSIVE RunPathFns(_, _, _)
RunPathFns(fns, i, acc) ==
    IF i > Len(fns) THEN acc
    ELSE RunPathFns(fns, i + 1,
                    [on |-> RunPathFn(fns[i], acc.on),
                     ran |-> Append(acc.ran, [list |-> "path_fns", at |-> i])])

\* add_security_scheme leaving alone a scheme of that name already there.
add_security_scheme_if_absent(components, name, scheme) ==
    IF name \in Keys(components.security_schemes) THEN components
    ELSE [components EXCEPT !.security_schemes = @ \cup {<<name, scheme>>}]

\* Components::add_security_scheme
add_security_scheme(components, name, scheme) ==
    [components EXCEPT !.security_schemes = Put(@, name, scheme)]

\* serve from split_for_parts to the last path callback: the document (on) and
\* the callbacks run (ran).
BuildOpenApi ==
    LET base == IF IsSome(router_openapi.components)
                THEN Unwrap(router_openapi.components) ELSE NewComponents
        done == RunSchemaFns(schema_fns, 1,
                    [on |-> add_security_scheme(base, "bearer", BearerScheme),
                     ran |-> <<>>])
    IN  RunPathFns(path_fns, 1,
            [on |-> [info |-> IF IsSome(info) THEN Unwrap(info) ELSE DefaultInfo,
                     tags |-> IF tags # <<>> THEN Some(tags) ELSE None,
                     security_schemes |-> done.on.security_schemes,
                     schemas |-> done.on.schemas,
                     paths |-> router_openapi.paths],
             ran |-> done.ran])

\* EywaApp::serve up to the bind: the document is built and the documentation
\* route is merged into the router.
serve ==
    /\ phase = "building"
    /\ IF Overlaps({ScalarPath})
       THEN /\ Panic
            /\ UNCHANGED history
       ELSE /\ phase' = "built"
            /\ \E built \in {BuildOpenApi} :
                  /\ openapi' = Some(built.on)
                  /\ ran' = ran \o built.ran
            /\ routes' = routes \cup {<<ScalarPath, [handler |-> "scalar", layers |-> <<>>]>>}
            /\ UNCHANGED << history, router_openapi, fallback, info, tags, schema_fns,
                            path_fns, has_health_checks, listener, result, reqs,
                            closed, rng, serde >>

\* What TcpListener::bind fails with: the address is taken, or the address
\* string is not one.
BindErrors == {"Address already in use", "invalid socket address"}

\* map_err(|e| AppError::InternalServerError(e.to_string()))
InternalServerError(e) == [error |-> "InternalServerError", message |-> e]

\* serve going on to serve when the bind has failed.
bind_unchecked(ok) ==
    /\ phase = "built"
    /\ phase' = "serving"
    /\ listener' = IF ok THEN Some("bound") ELSE None
    /\ UNCHANGED << history, appVars, openapi, ran, result, reqs, closed, rng, serde >>

\* EywaApp::serve, TcpListener::bind: the listener binds or serve returns the error.
bind(ok) ==
    /\ phase = "built"
    /\ IF ok
       THEN /\ phase' = "serving"
            /\ listener' = Some("bound")
            /\ UNCHANGED result
       ELSE /\ phase' = "failed"
            /\ \E e \in BindErrors : result' = Some(InternalServerError(e))
            /\ UNCHANGED listener
    /\ UNCHANGED << history, appVars, openapi, ran, reqs, closed, rng, serde >>

\* ------------------------------------------------------------------ legacy

\* OpenApi::default
DefaultOpenApi ==
    [info |-> DefaultInfo, tags |-> None, security_schemes |-> {}, schemas |-> {},
     paths |-> {}]

\* A document written by hand, for with_openapi.
ManualOpenApi ==
    [DefaultOpenApi EXCEPT
        !.info = [title |-> "Manual", version |-> "0.1.0", description |-> None]]

\* LegacyEywaApp::new
InitLegacy ==
    /\ phase = "legacy_building"
    /\ history = <<>>
    /\ routes = {}
    /\ router_openapi = [components |-> None, paths |-> {}]
    /\ fallback = <<>>
    /\ info = None
    /\ tags = <<>>
    /\ schema_fns = <<>>
    /\ path_fns = <<>>
    /\ has_health_checks = FALSE
    /\ openapi = Some(DefaultOpenApi)
    /\ ran = <<>>
    /\ listener = None
    /\ result = None
    /\ reqs = <<>>
    /\ closed = <<>>
    /\ rng = 0
    /\ serde = None

LegacyCanCall == phase = "legacy_building" /\ Len(history) < MaxCalls

\* LegacyEywaApp::with_openapi
with_openapi(doc) ==
    /\ LegacyCanCall
    /\ Called("with_openapi", doc.info.title)
    /\ openapi' = Some(doc)
    /\ UNCHANGED << phase, appVars, ran, listener, result, reqs, closed, rng, serde >>

\* LegacyEywaApp::mount::<C>
legacy_mount(c) ==
    LET C == Controller(c)
        mounted == {C.prefix \o p : p \in C.routes}
    IN  /\ LegacyCanCall
        /\ Called("mount", c)
        /\ IF Overlaps(mounted)
           THEN Panic
           ELSE /\ routes' = routes \cup
                       {<<p, [handler |-> c, layers |-> <<>>]>> : p \in mounted}
                /\ UNCHANGED << phase, router_openapi, fallback, info, tags, schema_fns,
                                path_fns, has_health_checks, openapi, ran, listener,
                                result, reqs, closed, rng, serde >>

\* LegacyEywaApp::layer
legacy_layer(layer) ==
    /\ LegacyCanCall
    /\ Called("layer", layer)
    /\ Layered(<<layer>>)
    /\ UNCHANGED << phase, router_openapi, info, tags, schema_fns, path_fns,
                    has_health_checks, openapi, ran, listener, result, reqs, closed, rng,
                    serde >>

\* LegacyEywaApp::serve, TcpListener::bind: the first thing serve does.
legacy_bind(ok) ==
    /\ phase = "legacy_building"
    /\ IF ok
       THEN /\ phase' = "legacy_bound"
            /\ listener' = Some("bound")
            /\ UNCHANGED result
       ELSE /\ phase' = "failed"
            /\ \E e \in BindErrors : result' = Some(InternalServerError(e))
            /\ UNCHANGED listener
    /\ UNCHANGED << history, appVars, openapi, ran, reqs, closed, rng, serde >>

\* LegacyEywaApp::serve after the bind: the documentation route is merged and
\* the router is served on the listener.
legacy_serve ==
    /\ phase = "legacy_bound"
    /\ IF Overlaps({ScalarPath})
       THEN /\ phase' = "panicked"
            /\ listener' = None
            /\ UNCHANGED routes
       ELSE /\ phase' = "serving"
            /\ routes' = routes \cup {<<ScalarPath, [handler |-> "scalar", layers |-> <<>>]>>}
            /\ UNCHANGED listener
    /\ UNCHANGED << history, router_openapi, fallback, info, tags, schema_fns, path_fns,
                    has_health_checks, openapi, ran, result, reqs, closed, rng,
                    serde >>

\* ------------------------------------------------------------------ middleware

En == <<"e","n">>

\* Uuid::new_v4 at generator position n: the identifier and the next position.
new_v4(n) == [id |-> GenUuid(n), rng |-> n + 1]

\* The identifier the first X-Correlation-ID value denotes, if it is text
\* that parses as one.
PresentedId(headers) ==
    LET v == Get(headers, "x-correlation-id")
        t == IF IsSome(v) THEN to_str(Unwrap(v)) ELSE None
    IN  IF IsSome(t) THEN parse_str(Unwrap(t)) ELSE None

\* extract_correlation_id that never reads the header.
extract_correlation_id_ignoring_header(headers, n) == new_v4(n)

\* extract_correlation_id with unwrap_or_default in place of unwrap_or_else(new_v4).
extract_correlation_id_or_default(headers, n) ==
    LET u == PresentedId(headers)
    IN  IF IsSome(u) THEN [id |-> Unwrap(u), rng |-> n] ELSE [id |-> NilUuid, rng |-> n]

\* extract_correlation_id: the identifier presented, or a new one.
extract_correlation_id(headers, n) ==
    LET u == PresentedId(headers)
    IN  IF IsSome(u) THEN [id |-> Unwrap(u), rng |-> n] ELSE new_v4(n)

\* extract_language reading the last Accept-Language value instead of the first.
extract_language_last_value(headers) ==
    LET vs == headers["accept-language"]
        t == IF vs # <<>> THEN to_str(vs[Len(vs)]) ELSE None
    IN  IF IsSome(t) THEN Unwrap(t) ELSE En

\* extract_language: the text of the first Accept-Language value, or "en".
extract_language(headers) ==
    LET v == Get(headers, "accept-language")
        t == IF IsSome(v) THEN to_str(Unwrap(v)) ELSE None
    IN  IF IsSome(t) THEN Unwrap(t) ELSE En

\* request_context_middleware_fn reusing the correlation id as the request id.
build_context_reusing_id(headers, n) ==
    LET c == extract_correlation_id(headers, n)
    IN  [ctx |-> [correlation_id |-> c.id,
                  user_id |-> None,
                  language |-> extract_language(headers),
                  request_id |-> c.id],
         rng |-> c.rng]

\* request_context_middleware_fn up to next.run: the context built from the
\* request's headers with the generator at position n, and the next position.
build_context(headers, n) ==
    LET c == extract_correlation_id(headers, n)
        q == new_v4(c.rng)
    IN  [ctx |-> [correlation_id |-> c.id,
                  user_id |-> None,
                  language |-> extract_language(headers),
                  request_id |-> q.id],
         rng |-> q.rng]

\* request_context_middleware_fn setting the header on successful responses only.
attach_correlation_id_on_success(correlation_id, response) ==
    IF response.status < 400
    THEN [response EXCEPT
            !.headers = Insert(@, "x-correlation-id", to_string(correlation_id))]
    ELSE response

\* request_context_middleware_fn after next.run: the response it returns for
\* the response the rest of the pipeline produced.
attach_correlation_id(correlation_id, response) ==
    [response EXCEPT
        !.headers = Insert(@, "x-correlation-id", to_string(correlation_id))]

\* NormalizePathLayer::trim_trailing_slash on the request's uri.
trim_trailing_slash(uri) ==
    IF Len(uri) > 1 /\ uri[Len(uri)] = "" THEN SubSeq(uri, 1, Len(uri) - 1) ELSE uri

\* One layer on the way in: st is the request as the layer receives it
\* (headers, uri, extensions), what the stages before it saw, and the frames
\* pushed for the way out. The layer sees the request and may change it.
LayerIn(layer, st) ==
    LET saw == Append(st.seen, [stage |-> layer, ctx |-> st.extensions])
    IN  IF layer = "request_context"
        THEN LET b == build_context(st.headers, st.rng)
             IN  [st EXCEPT !.extensions = Some(b.ctx),
                            !.rng = b.rng,
                            !.seen = saw,
                            !.stack = Append(@, [layer |-> layer,
                                                 cid |-> Some(b.ctx.correlation_id)])]
        ELSE IF layer = "normalize_path"
        THEN [st EXCEPT !.uri = trim_trailing_slash(@),
                        !.seen = saw,
                        !.stack = Append(@, [layer |-> layer, cid |-> None])]
        ELSE [st EXCEPT !.seen = saw,
                        !.stack = Append(@, [layer |-> layer, cid |-> None])]

\* The layers of a route from the outermost (the last applied) to the innermost.
RECURSIVE Descend(_, _, _)
Descend(layers, i, st) ==
    IF i = 0 THEN st ELSE Descend(layers, i - 1, LayerIn(layers[i], st))

\* One layer on the way out, for the response of the stage inside it.
LayerOut(frame, response) ==
    IF frame.layer = "request_context"
    THEN attach_correlation_id(Unwrap(frame.cid), response)
    ELSE response

\* The frames from the innermost (the last pushed) to the outermost; each hop
\* records what the layer received from inside and what it returned.
RECURSIVE Ascend(_, _, _)
Ascend(stack, i, out) ==
    IF i = 0 THEN out
    ELSE LET r == LayerOut(stack[i], out.response)
         IN  Ascend(stack, i - 1,
                    [response |-> r,
                     hops |-> Append(out.hops,
                                     [layer |-> stack[i].layer, cid |-> stack[i].cid,
                                      inner |-> out.response, outer |-> r])])

\* ------------------------------------------------------------------ health

\* serde_json writes a string between double quotes (the strings here have no
\* character to escape).
Quote(text) == "\"" \o text \o "\""

\* The members of a JSON object from the i-th on, separated by commas.
RECURSIVE Members(_, _)
Members(fields, i) ==
    IF i > Len(fields) THEN ""
    ELSE Quote(fields[i][1]) \o ":" \o fields[i][2]
            \o (IF i < Len(fields) THEN "," ELSE "") \o Members(fields, i + 1)

\* Serializing a struct, or a map: an object with the fields in order; an
\* error if a field's value fails to serialize. The value of a field is the
\* result of serializing it, Some(text) or None for an error.
serialize_struct(fields) ==
    IF \E i \in 1..Len(fields) : fields[i][2] = None THEN None
    ELSE Some("{" \o Members([i \in 1..Len(fields) |->
                                 <<fields[i][1], Unwrap(fields[i][2])>>], 1) \o "}")

\* A value of HealthStatus is "Healthy" or "Unhealthy"; one of DatabaseStatus
\* is <<"Connected">>, <<"Disconnected">> or <<"Error", message>>.

\* Serialize for HealthStatus without the rename attributes.
HealthStatus_serialize_unrenamed(v) == Some(Quote(v))

\* Serialize for HealthStatus: a unit variant is written as its (renamed) name.
HealthStatus_serialize(v) ==
    Some(Quote(IF v = "Healthy" THEN "healthy" ELSE "unhealthy"))

\* The serializer an internally tagged enum hands the content of a newtype
\* variant to: it has to put the tag into what the content writes, so it takes
\* maps and structs, and answers a string with an error.
TaggedSerializer_serialize_str(text) == None

\* Serialize for DatabaseStatus, #[serde(tag = "status")]: a unit variant is
\* written as an object holding the tag; the newtype variant hands its String
\* to the tagged serializer, which takes maps and structs only.
DatabaseStatus_serialize(v) ==
    IF v[1] = "Connected"
    THEN serialize_struct(<< <<"status", Some(Quote("connected"))>> >>)
    ELSE IF v[1] = "Disconnected"
    THEN serialize_struct(<< <<"status", Some(Quote("disconnected"))>> >>)
    ELSE TaggedSerializer_serialize_str(v[2])

\* Serialize for HealthResponse
HealthResponse_serialize(v) ==
    serialize_struct(<< <<"status", HealthStatus_serialize(v.status)>> >>)

\* Serialize for Checks
Checks_serialize(v) ==
    serialize_struct(<< <<"database", DatabaseStatus_serialize(v.database)>> >>)

\* Serialize for DetailedHealthResponse
DetailedHealthResponse_serialize(v) ==
    serialize_struct(<< <<"status", HealthStatus_serialize(v.status)>>,
                        <<"checks", Checks_serialize(v.checks)>> >>)

\* health
health == [status |-> "Healthy"]

\* ready
ready == [status |-> "Healthy", checks |-> [database |-> <<"Connected">>]]

\* live
live == [status |-> "Healthy"]

TextPlain == <<"t","e","x","t">>

\* Ok(Json(value)) as a response: 200 with the JSON text, or 500 when the
\* value does not serialize.
JsonResponse(serialized) ==
    IF IsSome(serialized)
    THEN [status |-> 200, body |-> Unwrap(serialized),
          headers |-> [EmptyHeaders EXCEPT !["content-type"] = <<Json>>]]
    ELSE [status |-> 500, body |-> "serialization failed",
          headers |-> [EmptyHeaders EXCEPT !["content-type"] = <<TextPlain>>]]

\* ------------------------------------------------------------- serialization

Words == {"connection", " ", "refused"}

\* The messages of at most n words.
RECURSIVE Messages(_)
Messages(n) ==
    IF n = 0 THEN {""}
    ELSE LET shorter == Messages(n - 1)
         IN  shorter \cup {m \o w : m \in shorter, w \in Words}

HealthStatusValues == {"Healthy", "Unhealthy"}

DatabaseStatusValues ==
    {<<"Connected">>, <<"Disconnected">>}
        \cup {<<"Error", m>> : m \in Messages(MaxWords)}

\* The types of the module that derive Serialize.
SerializableTypes ==
    {"HealthStatus", "DatabaseStatus", "HealthResponse", "Checks",
     "DetailedHealthResponse"}

\* The responses a value of each type is taken from.
DetailedHealthResponses ==
    [status : HealthStatusValues, checks : [database : DatabaseStatusValues]]

\* The value of the type in a response: the response, or the part of it.
ValueOf(type, response) ==
    IF type = "HealthStatus" THEN response.status
    ELSE IF type = "DatabaseStatus" THEN response.checks.database
    ELSE IF type = "HealthResponse" THEN [status |-> response.status]
    ELSE IF type = "Checks" THEN response.checks
    ELSE response

TaggedNewtypeError ==
    "cannot serialize tagged newtype variant DatabaseStatus::Error containing a string"

\* serde_json::to_string(&value): Ok(text), or Err of what Serialize reports.
serde_json_to_string(type, v) ==
    LET written == IF type = "HealthStatus" THEN HealthStatus_serialize(v)
                   ELSE IF type = "DatabaseStatus" THEN DatabaseStatus_serialize(v)
                   ELSE IF type = "HealthResponse" THEN HealthResponse_serialize(v)
                   ELSE IF type = "Checks" THEN Checks_serialize(v)
                   ELSE DetailedHealthResponse_serialize(v)
    IN  IF IsSome(written) THEN <<"Ok", Unwrap(written)>>
        ELSE <<"Err", TaggedNewtypeError>>

\* A value about to be serialized, the application aside: the type and the
\* response the value is taken from.
InitSerialize ==
    /\ phase = "no_app"
    /\ history = <<>>
    /\ routes = {}
    /\ router_openapi = [components |-> None, paths |-> {}]
    /\ fallback = <<>>
    /\ info = None
    /\ tags = <<>>
    /\ schema_fns = <<>>
    /\ path_fns = <<>>
    /\ has_health_checks = FALSE
    /\ openapi = None
    /\ ran = <<>>
    /\ listener = None
    /\ result = None
    /\ reqs = <<>>
    /\ closed = <<>>
    /\ rng = 0
    /\ \E type \in SerializableTypes, response \in DetailedHealthResponses :
          serde = Some([type |-> type, from |-> response, json |-> None])

\* let json = serde_json::to_string(&value)
serialize ==
    /\ IsSome(serde)
    /\ Unwrap(serde).json = None
    /\ serde' = Some([Unwrap(serde) EXCEPT !.json =
                  Some(serde_json_to_string(Unwrap(serde).type,
                          ValueOf(Unwrap(serde).type, Unwrap(serde).from)))])
    /\ UNCHANGED <<appVars, phase, history, openapi, ran, listener, result, reqs,
                   closed, rng>>

\* ------------------------------------------------------------------ requests

Html == <<"h","t","m","l">>

\* The route of a path: its own, or the fallback.
RouteOf(path) ==
    IF path \in Keys(routes) THEN Lookup(routes, path)
    ELSE [handler |-> "fallback", layers |-> fallback]

\* What the handler of a route may answer.
HandlerOutputs(handler) ==
    IF handler = "fallback"
    THEN {[status |-> 404, body |-> "", headers |-> EmptyHeaders]}
    ELSE IF handler = "scalar"
    THEN {[status |-> 200, body |-> "scalar",
           headers |-> [EmptyHeaders EXCEPT !["content-type"] = <<Html>>]]}
    ELSE IF handler = "health"
    THEN {JsonResponse(HealthResponse_serialize(health))}
    ELSE IF handler = "ready"
    THEN {JsonResponse(DetailedHealthResponse_serialize(ready))}
    ELSE IF handler = "live"
    THEN {JsonResponse(HealthResponse_serialize(live))}
    ELSE HandlerResponses

\* The paths requests ask for.
PathSamples == {<<"a">>, <<"a", "">>, ScalarPath}

\* A request arrives while fewer than `inflight` requests are being served:
\* it is routed, runs through the layers of its route and reaches the handler,
\* which then waits.
Ingress(inflight, path, headers) ==
    /\ phase = "serving"
    /\ Len(reqs) < inflight
    /\ Len(reqs) + Len(closed) < MaxReq
    /\ \E st \in {Descend(RouteOf(path).layers, Len(RouteOf(path).layers),
                          [headers |-> headers, uri |-> path, extensions |-> None,
                           seen |-> <<>>, stack |-> <<>>, rng |-> rng])} :
          /\ reqs' = Append(reqs,
                        [pc |-> "handling", path |-> path, headers |-> headers,
                         uri |-> st.uri, handler |-> RouteOf(path).handler,
                         extensions |-> st.extensions,
                         seen |-> Append(st.seen, [stage |-> "handler",
                                                   ctx |-> st.extensions]),
                         stack |-> st.stack, produced |-> None, hops |-> <<>>,
                         response |-> None])
          /\ rng' = st.rng
    /\ UNCHANGED << phase, history, appVars, openapi, ran, listener, result, closed, serde >>

\* Egress with the propagator keeping its context in one slot shared by the
\* requests: the response runs back through the layers of the request that
\* arrived last.
Egress_shared_slot(r, answer) ==
    /\ phase = "serving"
    /\ r \in 1..Len(reqs)
    /\ reqs[r].pc = "handling"
    /\ answer \in HandlerOutputs(reqs[r].handler)
    /\ \E out \in {Ascend(reqs[Len(reqs)].stack, Len(reqs[Len(reqs)].stack),
                           [response |-> answer, hops |-> <<>>])} :
          reqs' = [reqs EXCEPT ![r].pc = "done",
                               ![r].produced = Some(answer),
                               ![r].hops = out.hops,
                               ![r].response = Some(out.response)]
    /\ UNCHANGED << phase, history, appVars, openapi, ran, listener, result, closed, rng, serde >>

\* The handler answers and the response runs back through the layers.
Egress(r, answer) ==
    /\ phase = "serving"
    /\ r \in 1..Len(reqs)
    /\ reqs[r].pc = "handling"
    /\ answer \in HandlerOutputs(reqs[r].handler)
    /\ \E out \in {Ascend(reqs[r].stack, Len(reqs[r].stack),
                           [response |-> answer, hops |-> <<>>])} :
          reqs' = [reqs EXCEPT ![r].pc = "done",
                               ![r].produced = Some(answer),
                               ![r].hops = out.hops,
                               ![r].response = Some(out.response)]
    /\ UNCHANGED << phase, history, appVars, openapi, ran, listener, result, closed, rng, serde >>

\* The request ran through the propagator.
Propagated(q) == \E i \in 1..Len(q.stack) : q.stack[i].layer = "request_context"

\* What is remembered of a request once it is over: whether it ran through the
\* propagator, whether it presented an identifier, the identifiers its handler
\* saw, and the header it was answered.
Summary(q) ==
    [propagated |-> Propagated(q),
     presented |-> IsSome(PresentedId(q.headers)),
     ids |-> IF IsSome(q.extensions)
             THEN Some([correlation_id |-> Unwrap(q.extensions).correlation_id,
                        request_id |-> Unwrap(q.extensions).request_id])
             ELSE None,
     echoed |-> Get(Unwrap(q.response).headers, "x-correlation-id")]

\* The response has been sent: the request and its context are dropped.
Close(r) ==
    /\ r \in 1..Len(reqs)
    /\ reqs[r].pc = "done"
    /\ closed' = Append(closed, Summary(reqs[r]))
    /\ reqs' = [i \in 1..(Len(reqs) - 1) |-> IF i < r THEN reqs[i] ELSE reqs[i + 1]]
    /\ UNCHANGED << phase, history, appVars, openapi, ran, listener, result, rng, serde >>

AllResponses ==
    HandlerResponses \cup HandlerOutputs("fallback") \cup HandlerOutputs("scalar")
        \cup HandlerOutputs("health") \cup HandlerOutputs("ready")
        \cup HandlerOutputs("live")

\* ------------------------------------------------------------------ specifications

\* The application serving requests: routes, the two middleware layers, serve.
NextServe ==
    \/ mount("CtlA")
    \/ request_context
    \/ request_logging
    \/ serve
    \/ \E ok \in BOOLEAN : bind(ok)
    \/ \E path \in PathSamples, headers \in RequestSamples : Ingress(1, path, headers)
    \/ \E r \in 1..MaxReq, answer \in AllResponses : Egress(r, answer)
    \/ \E r \in 1..MaxReq : Close(r)

Spec == Init /\ [][NextServe]_vars

\* Start-up of either application, and a first request.
NextStart ==
    \/ \E c \in {"CtlA", "CtlD"} : mount(c)
    \/ schema("T1")
    \/ health_checks
    \/ serve
    \/ \E ok \in BOOLEAN : bind(ok)
    \/ with_openapi(ManualOpenApi)
    \/ legacy_mount("CtlA")
    \/ legacy_layer("trace")
    \/ \E ok \in BOOLEAN : legacy_bind(ok)
    \/ legacy_serve
    \/ \E path \in {<<"a">>, ScalarPath} : Ingress(1, path, Hdr(<<>>, <<>>))
    \/ \E r \in 1..MaxReq, answer \in AllResponses : Egress(r, answer)
    \/ \E r \in 1..MaxReq : Close(r)

SpecStart == (Init \/ InitLegacy) /\ [][NextStart]_vars

\* The application serving two requests at a time.
NextConcurrent ==
    \/ mount("CtlA")
    \/ request_context
    \/ serve
    \/ \E ok \in BOOLEAN : bind(ok)
    \/ \E headers \in ConcurrentRequestSamples : Ingress(2, <<"a">>, headers)
    \/ \E r \in 1..MaxReq, answer \in AllResponses : Egress(r, answer)
    \/ \E r \in 1..MaxReq : Close(r)

SpecConcurrent == Init /\ [][NextConcurrent]_vars

\* The application with health checks, serving.
NextHealth ==
    \/ health_checks
    \/ request_context
    \/ mount("CtlA")
    \/ serve
    \/ \E ok \in BOOLEAN : bind(ok)
    \/ \E path \in HealthRoutes \cup {<<"a">>}, headers \in HealthRequestSamples :
          Ingress(1, path, headers)
    \/ \E r \in 1..MaxReq, answer \in AllResponses : Egress(r, answer)
    \/ \E r \in 1..MaxReq : Close(r)

SpecHealth == Init /\ [][NextHealth]_vars

\* The builder assembling the document.
NextDoc ==
    \/ \E title \in Titles : Info(title)
    \/ \E name \in TagNames : tag(name, "d")
    \/ \E c \in Controllers : mount(c)
    \/ \E t \in SchemaTypes : schema(t)
    \/ \E r \in UtoipaMethodRouters : Routes(r)
    \/ \E o \in OpenApiRouters : merge(o)
    \/ health_checks
    \/ serve
    \/ \E ok \in BOOLEAN : bind(ok)

SpecDoc == Init /\ [][NextDoc]_vars

\* A value of the health module serialized by serde_json.
NextSerialize == serialize

SpecSerialize == InitSerialize /\ [][NextSerialize]_vars

\* ------------------------------------------------------------------ properties

XCid == "x-correlation-id"

\* The requests that have been answered and are still held.
Answered == {r \in 1..Len(reqs) : reqs[r].pc = "done"}

\* The requests answered through the propagator.
Echoing == {r \in Answered : Propagated(reqs[r])}

\* The X-Correlation-ID values of the response of request r.
EchoOf(r) == Unwrap(reqs[r].response).headers[XCid]

\* The identifiers the generator has handed out.
Generated == {GenUuid(k) : k \in 0..(rng - 1)}

\* C1 as stated: a request that presents an identifier in any form the parser
\* accepts is answered with the very bytes it sent.
C1_EchoVerbatim ==
    \A r \in Echoing :
        IsSome(PresentedId(reqs[r].headers)) =>
            EchoOf(r) = <<Unwrap(Get(reqs[r].headers, XCid))>>

\* C1, amended: a request that presents an identifier is answered with the
\* lower-case hyphenated text of that identifier, which is the value it sent
\* exactly when it sent that form.
C1_EchoCanonical ==
    \A r \in Echoing :
        LET id == PresentedId(reqs[r].headers)
            sent == Unwrap(Get(reqs[r].headers, XCid))
        IN  IsSome(id) =>
                /\ EchoOf(r) = <<to_string(Unwrap(id))>>
                /\ parse_str(EchoOf(r)[1]) = id
                /\ (EchoOf(r) = <<sent>>) <=> (sent = to_string(Unwrap(id)))

\* A request that sent the identifier in upper case has been answered in lower case.
C1_Witness ==
    \E r \in Echoing :
        /\ Get(reqs[r].headers, XCid) = Some(UpperOf(TextA))
        /\ EchoOf(r) = <<TextA>>

\* C2: a request without an identifier that parses is not rejected: it reaches
\* the handler with a context, the handler's answer comes back with its status,
\* and the identifier echoed is a version-4 one the generator handed out for it,
\* echoed to no other such request.
C2_FreshWhenAbsent ==
    \A r \in Echoing :
        ~IsSome(PresentedId(reqs[r].headers)) =>
            /\ IsSome(reqs[r].extensions)
            /\ Unwrap(reqs[r].response).status = Unwrap(reqs[r].produced).status
            /\ Len(EchoOf(r)) = 1
            /\ IsSome(parse_str(EchoOf(r)[1]))
            /\ get_version(Unwrap(parse_str(EchoOf(r)[1]))) = VersionRandom
            /\ Unwrap(parse_str(EchoOf(r)[1])) \in Generated
            /\ \A v \in 1..Len(reqs[r].headers[XCid]) :
                  EchoOf(r)[1] # reqs[r].headers[XCid][v]
            /\ \A c \in 1..Len(closed) :
                  closed[c].propagated /\ ~closed[c].presented =>
                      closed[c].echoed # Some(EchoOf(r)[1])
            /\ \A o \in Echoing :
                  o # r /\ ~IsSome(PresentedId(reqs[o].headers)) => EchoOf(o) # EchoOf(r)

\* A request with a malformed identifier has been answered after one with none.
C2_Witness ==
    /\ \E c \in 1..Len(closed) : closed[c].propagated /\ ~closed[c].presented
    /\ \E r \in Echoing :
          /\ Get(reqs[r].headers, XCid) = Some(BadDigit)
          /\ Len(EchoOf(r)) = 1

\* C3: the propagator returns the response it received from the rest of the
\* pipeline with the same status, body and other headers, whatever the status,
\* and with X-Correlation-ID set to the correlation id of the context it attached.
C3_ResponseForwarded ==
    \A r \in Answered :
        \A h \in 1..Len(reqs[r].hops) :
            LET hop == reqs[r].hops[h]
            IN  hop.layer = "request_context" =>
                    /\ hop.outer.status = hop.inner.status
                    /\ hop.outer.body = hop.inner.body
                    /\ \A n \in HeaderNames \ {XCid} :
                          hop.outer.headers[n] = hop.inner.headers[n]
                    /\ hop.outer.headers[XCid] = <<to_string(Unwrap(hop.cid))>>
                    /\ \E s \in 1..Len(reqs[r].seen) :
                          /\ s > 1
                          /\ reqs[r].seen[s - 1].stage = "request_context"
                          /\ reqs[r].seen[s].ctx # None
                          /\ Unwrap(reqs[r].seen[s].ctx).correlation_id = Unwrap(hop.cid)

\* An error response that carried the handler's own X-Correlation-ID went
\* through the propagator.
C3_Witness ==
    \E r \in Echoing :
        /\ Unwrap(reqs[r].produced).status = 500
        /\ Unwrap(reqs[r].produced).headers[XCid] = <<OwnCid>>
        /\ Unwrap(reqs[r].response).status = 500
        /\ EchoOf(r) # <<OwnCid>>

\* request_context() is among the builder's calls.
ContextEnabled == \E i \in 1..Len(history) : history[i].op = "request_context"

\* C4 as stated: once request_context() has been called, every response of the
\* served application carries X-Correlation-ID, whatever the route and whenever
\* it was registered.
C4_EveryResponseEchoes ==
    ContextEnabled => \A r \in Answered : EchoOf(r) # <<>>

\* C5 as stated: with propagation enabled, a request has exactly one context,
\* attached before the handler runs and seen by every stage after the propagator.
C5_OneContextPerRequest ==
    ContextEnabled =>
        \A r \in 1..Len(reqs) :
            LET q == reqs[r]
                made == {i \in 1..Len(q.stack) : q.stack[i].layer = "request_context"}
            IN  /\ Cardinality(made) = 1
                /\ q.seen[Len(q.seen)].stage = "handler"
                /\ q.seen[Len(q.seen)].ctx # None
                /\ \A i \in made : \A s \in (i + 1)..Len(q.seen) :
                      q.seen[s].ctx = q.seen[Len(q.seen)].ctx

SentIds(q) ==
    {Unwrap(parse_str(q.headers[XCid][v])) :
        v \in {w \in 1..Len(q.headers[XCid]) :
                  /\ IsSome(to_str(q.headers[XCid][w]))
                  /\ IsSome(parse_str(q.headers[XCid][w]))}}

\* C7: the request id of every context is a version-4 identifier the generator
\* handed out, is no identifier the request sent and not the correlation id,
\* and is the request id of no other request, sharing its correlation id or not.
C7_RequestIdFresh ==
    \A r \in 1..Len(reqs) :
        IsSome(reqs[r].extensions) =>
            LET ctx == Unwrap(reqs[r].extensions)
            IN  /\ ctx.request_id \in Generated
                /\ get_version(ctx.request_id) = VersionRandom
                /\ ctx.request_id \notin SentIds(reqs[r])
                /\ ctx.request_id # ctx.correlation_id
                /\ \A c \in 1..Len(closed) :
                      IsSome(closed[c].ids) =>
                          Unwrap(closed[c].ids).request_id # ctx.request_id
                /\ \A o \in 1..Len(reqs) :
                      o # r /\ IsSome(reqs[o].extensions) =>
                          Unwrap(reqs[o].extensions).request_id # ctx.request_id

\* Two requests have presented the same correlation id.
C7_Witness ==
    \E r \in 1..Len(reqs), c \in 1..Len(closed) :
        /\ IsSome(reqs[r].extensions)
        /\ IsSome(PresentedId(reqs[r].headers))
        /\ IsSome(closed[c].ids)
        /\ closed[c].presented
        /\ Unwrap(closed[c].ids).correlation_id = Unwrap(reqs[r].extensions).correlation_id

\* request_context() was called and request_logging() after it.
DocumentedOrder ==
    \E i, j \in 1..Len(history) :
        /\ i < j
        /\ history[i].op = "request_context"
        /\ history[j].op = "request_logging"
        /\ \A k \in 1..Len(history) : history[k].op = "request_logging" => k > i

\* C8 as stated: when request_context() is called before request_logging(), the
\* propagator runs before the logging stage, which finds the context attached.
C8_ContextBeforeLogging ==
    DocumentedOrder =>
        \A r \in 1..Len(reqs) :
            \A s \in 1..Len(reqs[r].seen) :
                reqs[r].seen[s].stage = "trace" /\ Propagated(reqs[r]) =>
                    /\ reqs[r].seen[s].ctx # None
                    /\ \E p \in 1..(s - 1) : reqs[r].seen[p].stage = "request_context"

\* The document has been built.
Built == openapi # None

\* The entries of the document's tag list.
DocTags == IF Unwrap(openapi).tags = None THEN <<>> ELSE Unwrap(Unwrap(openapi).tags)

\* The calls that mounted a route group whose tag is `name`.
MountsOf(name) ==
    {i \in 1..Len(history) :
        history[i].op = "mount" /\ Controller(history[i].arg).tag = name}

\* The tag() calls made with `name`.
TagCallsOf(name) ==
    {i \in 1..Len(history) : history[i].op = "tag" /\ history[i].arg = name}

Min(S) == CHOOSE x \in S : \A y \in S : x <= y

\* C9: when two or more mounted route groups have the same tag name, and tag()
\* was not called with it, the document's tag list has exactly one entry of
\* that name: the one the first of these mounts added.
C9_MountTagOnce ==
    Built =>
        \A name \in TagNames :
            Cardinality(MountsOf(name)) >= 2 /\ TagCallsOf(name) = {} =>
                LET at == {i \in 1..Len(DocTags) : DocTags[i].name = name}
                IN  /\ Cardinality(at) = 1
                    /\ \A i \in at : DocTags[i].by = Min(MountsOf(name))
                                     /\ DocTags[i].description = None

\* Two route groups tagged "A" were mounted and the document was built.
C9_Witness ==
    /\ Built
    /\ Cardinality(MountsOf("A")) = 2
    /\ TagCallsOf("A") = {}
    /\ Cardinality({i \in 1..Len(DocTags) : DocTags[i].name = "A"}) = 1

\* C10 as stated: after any tag() and mount() calls the document's tag list has
\* no two entries of the same name, and the entry of a name is the first one
\* registered.
C10_TagsDeduplicated ==
    Built =>
        \A i, j \in 1..Len(DocTags) : DocTags[i].name = DocTags[j].name => i = j

\* C10, amended: the tag list holds the entries in registration order; an entry
\* that follows another of the same name was added by tag(), never by mount(),
\* and every tag() call has its entry.
C10_OnlyTagDuplicates ==
    Built =>
        /\ \A i, j \in 1..Len(DocTags) :
              i < j =>
                  /\ DocTags[i].by < DocTags[j].by
                  /\ DocTags[i].name = DocTags[j].name =>
                        /\ history[DocTags[j].by].op = "tag"
                        /\ DocTags[j].description # None
        /\ \A name \in TagNames :
              \A c \in TagCallsOf(name) :
                  \E i \in 1..Len(DocTags) : DocTags[i].by = c /\ DocTags[i].name = name
        /\ \A name \in TagNames :
              MountsOf(name) # {} =>
                  \E i \in 1..Len(DocTags) : DocTags[i].name = name

\* A tag() call repeated the name a mount had registered.
C10_Witness ==
    /\ Built
    /\ \E i, j \in 1..Len(DocTags) :
          /\ i < j
          /\ DocTags[i].name = DocTags[j].name
          /\ history[DocTags[i].by].op = "mount"
          /\ history[DocTags[j].by].op = "tag"

\* The component schemas a builder call registers for serve to insert.
Contribution(call) ==
    IF call.op = "mount" THEN Controller(call.arg).schemas
    ELSE IF call.op = "schema"
    THEN {<<SchemaType(call.arg).name, SchemaType(call.arg).schema>>}
    ELSE IF call.op = "health_checks" THEN HealthSchemas
    ELSE {}

\* The builder calls that registered the schema name, by position.
RegistrarsOf(name) ==
    {i \in 1..Len(history) : name \in Keys(Contribution(history[i]))}

Max(S) == CHOOSE x \in S : \A y \in S : x >= y

\* C11: a schema name registered by one or more of the builder's mount(),
\* schema::<T>() and health_checks() calls is in the built document exactly
\* once, with the schema of the last of these calls; registering a name again
\* does not keep the document from being built.
C11_LastSchemaWins ==
    Built =>
        \A i \in 1..Len(history) :
            \A name \in Keys(Contribution(history[i])) :
                /\ Cardinality({kv \in Unwrap(openapi).schemas : kv[1] = name}) = 1
                /\ Lookup(Unwrap(openapi).schemas, name) =
                      Lookup(Contribution(history[Max(RegistrarsOf(name))]), name)

\* "Item" was registered by schema::<T1>(), then by a mounted group, and a
\* name registered once is in the document too.
C11_Witness ==
    /\ Built
    /\ \E i, j \in RegistrarsOf("Item") :
          i < j /\ history[i].op = "schema" /\ history[j].op = "mount"
                /\ <<"Item", "Item@" \o history[j].arg>> \in Unwrap(openapi).schemas
    /\ \E name \in Keys(Unwrap(openapi).schemas) : Cardinality(RegistrarsOf(name)) = 1

\* The builder calls made with the operation.
CallsOf(op) == {i \in 1..Len(history) : history[i].op = op}

\* C12: whatever the builder calls before serve, the built document has one
\* security scheme named "bearer", and it is HTTP bearer with format JWT, also
\* after the callbacks of schema::<T>() and health_checks() have run.
C12_BearerDeclared ==
    Built =>
        /\ Cardinality({kv \in Unwrap(openapi).security_schemes : kv[1] = "bearer"}) = 1
        /\ \A kv \in Unwrap(openapi).security_schemes :
              kv[1] = "bearer" =>
                  /\ kv[2].type = "http"
                  /\ kv[2].scheme = "bearer"
                  /\ kv[2].bearer_format = "JWT"

\* The document was built after a router with a "bearer" scheme of its own
\* was merged and callbacks of schema::<T>() and health_checks() were run.
C12_Witness ==
    /\ Built
    /\ CallsOf("merge") # {}
    /\ CallsOf("schema") # {}
    /\ CallsOf("health_checks") # {}
    /\ \E i, j \in 1..Len(ran) : ran[i].list = "schema_fns" /\ ran[j].list = "path_fns"
    /\ <<"bearer", BearerScheme>> \in Unwrap(openapi).security_schemes

\* The callbacks of the two lists, each once, schema callbacks first, each
\* list in the order of registration.
EveryCallbackInOrder ==
    [i \in 1..Len(schema_fns) |-> [list |-> "schema_fns", at |-> i]]
        \o [i \in 1..Len(path_fns) |-> [list |-> "path_fns", at |-> i]]

\* C13: serve runs every schema callback once in registration order, then
\* every path callback once in registration order; no callback runs before
\* serve, the bind is attempted on the built document only, and from then on
\* neither the document nor the list of callbacks run changes.
C13_BuiltOnceBeforeBind ==
    /\ [](phase = "building" => ran = <<>> /\ ~Built)
    /\ [](phase \in {"built", "serving", "failed"} => Built /\ ran = EveryCallbackInOrder)
    /\ [][/\ (phase = "built" /\ phase' # "built") =>
                 phase' \in {"serving", "failed"} /\ listener = None
          /\ phase \in {"built", "serving", "failed"} =>
                 openapi' = openapi /\ ran' = ran]_vars

\* A request was answered by an application whose serve ran two schema
\* callbacks and two path callbacks.
C13_Witness ==
    /\ phase = "serving"
    /\ Len(schema_fns) >= 2
    /\ Len(path_fns) >= 2
    /\ ran = EveryCallbackInOrder
    /\ closed # <<>>

\* C14: a failed bind makes serve return the error with the bind failure's
\* text, leaves no listener and is final; a request is served only by an
\* application whose listener is bound and whose router is complete.
C14_BindFailureIsFatal ==
    /\ [](phase = "failed" =>
             /\ listener = None
             /\ reqs = <<>> /\ closed = <<>>
             /\ \E e \in BindErrors : result = Some(InternalServerError(e)))
    /\ [](reqs # <<>> \/ closed # <<>> =>
             /\ phase = "serving"
             /\ listener = Some("bound")
             /\ result = None
             /\ ScalarPath \in Keys(routes))
    /\ [](phase # "failed" => result = None)
    /\ [][phase = "failed" => phase' = "failed" /\ listener' = None /\ result' = result]_vars

\* serve of an EywaApp with a mounted group and health checks has built the
\* document and failed to bind a malformed address.
C14_Witness ==
    /\ phase = "failed"
    /\ CallsOf("mount") # {}
    /\ has_health_checks
    /\ ran # <<>>
    /\ result = Some(InternalServerError("invalid socket address"))

\* C15: with health checks enabled, every answer to GET /health and to
\* GET /health/live has status 200 and the body {"status":"healthy"},
\* whatever was called on the builder and whatever was requested before.
C15_HealthAlwaysHealthy ==
    has_health_checks =>
        \A r \in Answered :
            reqs[r].path \in {<<"health">>, <<"health", "live">>} =>
                /\ Unwrap(reqs[r].response).status = 200
                /\ Unwrap(reqs[r].response).body = "{\"status\":\"healthy\"}"

\* GET /health/live was answered through the propagator, after a request
\* that a controller's handler had answered with an error.
C15_Witness ==
    /\ has_health_checks
    /\ \E c \in 1..Len(closed) : closed[c].propagated
    /\ CallsOf("mount") # {}
    /\ \E r \in Echoing :
          /\ reqs[r].path = <<"health", "live">>
          /\ Unwrap(reqs[r].response).status = 200
          /\ Unwrap(reqs[r].response).headers["content-type"] = <<Json>>

\* C16 as stated: with health checks enabled, every answer to GET /health/ready
\* has status 200 and the body
\* {"status":"healthy","checks":{"database":"connected"}}.
C16_ReadyBareString ==
    has_health_checks =>
        \A r \in Answered :
            reqs[r].path = <<"health", "ready">> =>
                /\ Unwrap(reqs[r].response).status = 200
                /\ Unwrap(reqs[r].response).body =
                      "{\"status\":\"healthy\",\"checks\":{\"database\":\"connected\"}}"

\* The correlation ids of the contexts made for the request, and the ids of
\* the context its handler reads.
IdsOf(q) ==
    {Unwrap(q.stack[i].cid) :
        i \in {j \in 1..Len(q.stack) : q.stack[j].layer = "request_context"}}
    \cup (IF IsSome(q.extensions)
          THEN {Unwrap(q.extensions).correlation_id, Unwrap(q.extensions).request_id}
          ELSE {})

\* C17: however the requests in flight interleave, the context a handler reads
\* was built from its own request's headers, an identifier generated for a
\* request belongs to no other request, in flight or answered, and a response
\* echoes a correlation id of its own request's contexts.
C17_ContextsNotShared ==
    \A r \in 1..Len(reqs) :
        LET q == reqs[r]
        IN  /\ IsSome(q.extensions) =>
                  /\ Unwrap(q.extensions).language # <<>>
                  /\ q.headers["accept-language"] # <<>>
                        /\ IsSome(to_str(q.headers["accept-language"][1]))
                        => Unwrap(q.extensions).language = q.headers["accept-language"][1]
                  /\ q.headers["accept-language"] = <<>>
                        => Unwrap(q.extensions).language = En
                  /\ IF IsSome(PresentedId(q.headers))
                     THEN Unwrap(q.extensions).correlation_id = Unwrap(PresentedId(q.headers))
                     ELSE Unwrap(q.extensions).correlation_id \in Generated
            /\ \A o \in 1..Len(reqs) :
                  o # r => (IdsOf(q) \cap Generated) \cap IdsOf(reqs[o]) = {}
            /\ \A c \in 1..Len(closed) :
                  /\ IsSome(closed[c].ids) =>
                        (IdsOf(q) \cap Generated) \cap
                            {Unwrap(closed[c].ids).correlation_id,
                             Unwrap(closed[c].ids).request_id} = {}
                  /\ \A id \in IdsOf(q) \cap Generated :
                        closed[c].echoed # Some(to_string(id))
            /\ q.pc = "done" /\ Propagated(q) =>
                  \E id \in IdsOf(q) :
                      Unwrap(q.response).headers[XCid] = <<to_string(id)>>

\* Two requests without an identifier are in flight at once; the one that
\* arrived second has been answered first.
C17_Witness ==
    /\ Len(reqs) = 2
    /\ reqs[1].pc = "handling"
    /\ reqs[2].pc = "done"
    /\ \A r \in 1..2 : Propagated(reqs[r]) /\ ~IsSome(PresentedId(reqs[r].headers))
    /\ reqs[1].headers # reqs[2].headers

\* C18: the info of the built document is the one the last info() call gave,
\* whatever was called before, between and after; without an info() call it is
\* the info of the router's own document.
C18_LastInfoWins ==
    Built =>
        IF CallsOf("info") = {}
        THEN Unwrap(openapi).info = [title |-> "", version |-> "", description |-> None]
        ELSE /\ Unwrap(openapi).info.title = history[Max(CallsOf("info"))].arg
             /\ Unwrap(openapi).info.version = "1.0.0"
             /\ Unwrap(openapi).info.description = Some("d")

\* info() was called twice with different titles, with another call between
\* them, and the document has the second title.
C18_Witness ==
    /\ Built
    /\ \E i, j \in CallsOf("info") :
          /\ i + 1 < j
          /\ history[i].arg # history[j].arg
          /\ Unwrap(openapi).info.title = history[j].arg

\* The path items a builder call registers for its path callback to insert.
PathContribution(call) ==
    IF call.op = "mount" THEN Controller(call.arg).paths
    ELSE IF call.op = "health_checks" THEN HealthPaths
    ELSE {}

\* The builder calls whose path callback inserts an item for the path.
PathRegistrarsOf(path) ==
    {i \in 1..Len(history) : path \in Keys(PathContribution(history[i]))}

\* C19: a path for which path callbacks were registered has in the built
\* document the whole item of the callback registered last, also when the
\* router had collected an item for it through routes() or merge(); a path
\* only the router collected keeps the router's item; no other path is there.
C19_LastPathItemWins ==
    Built =>
        /\ \A i \in 1..Len(history) :
              \A path \in Keys(PathContribution(history[i])) :
                  /\ Cardinality({kv \in Unwrap(openapi).paths : kv[1] = path}) = 1
                  /\ Lookup(Unwrap(openapi).paths, path) =
                        Lookup(PathContribution(history[Max(PathRegistrarsOf(path))]), path)
        /\ \A kv \in router_openapi.paths :
              PathRegistrarsOf(kv[1]) = {} => kv \in Unwrap(openapi).paths
        /\ \A kv \in Unwrap(openapi).paths :
              PathRegistrarsOf(kv[1]) # {} \/ kv[1] \in Keys(router_openapi.paths)

\* The router had collected GET and PUT for /a, a mounted group registered
\* GET and a group mounted later POST: the document has the POST alone, and
\* a path only the router collected.
C19_Witness ==
    /\ Built
    /\ \E kv \in router_openapi.paths : kv[1] = <<"a">> /\ Cardinality(kv[2]) = 2
    /\ Cardinality(PathRegistrarsOf(<<"a">>)) = 2
    /\ <<"get", "CtlA">> \in
           Lookup(PathContribution(history[Min(PathRegistrarsOf(<<"a">>))]), <<"a">>)
    /\ Lookup(Unwrap(openapi).paths, <<"a">>) = {<<"post", "CtlD">>}
    /\ \E kv \in Unwrap(openapi).paths : PathRegistrarsOf(kv[1]) = {}

\* C20 as stated: the X-Correlation-ID of every response that went through
\* the propagator is the correlation id of the context the handler read, also
\* without a valid inbound header, when the handler set the header itself and
\* when request_context() was called more than once.
C20_EchoIsHandlerId ==
    \A r \in Echoing :
        /\ IsSome(reqs[r].extensions)
        /\ EchoOf(r) = <<to_string(Unwrap(reqs[r].extensions).correlation_id)>>

\* C21 as stated: serializing DatabaseStatus::Error(m) succeeds and the text is
\* the object {"status":"error","message":m}, the tag followed by the message.
C21_ErrorCarriesMessage ==
    \A m \in Messages(MaxWords) :
        (/\ IsSome(serde)
         /\ Unwrap(serde).type = "DatabaseStatus"
         /\ ValueOf("DatabaseStatus", Unwrap(serde).from) = <<"Error", m>>
         /\ IsSome(Unwrap(serde).json))
            => Unwrap(Unwrap(serde).json)
                 = <<"Ok", "{\"status\":\"error\",\"message\":" \o Quote(m) \o "}">>

====
